---- MODULE Spec2Model ----
(***************************************************************************)
(* Model of Structure-Mapper's JsonAnalyzer (src/utils/jsonAnalyzer.ts).   *)
(*                                                                         *)
(* JavaScript values are records tagged by t:                              *)
(*   "str"  a string (s is its text), "prim" a number or boolean (ty is    *)
(*   what typeof returns), "null", "arr" (e: the elements), "obj" (f: the  *)
(*   own enumerable properties, in Object.entries order, as [k, v]).       *)
(* The analyzer reads of a number or boolean nothing but its typeof, so    *)
(* 1 and 2 are the same value here.  Keys of the input documents are       *)
(* drawn from names that are neither array indices nor properties of       *)
(* Object.prototype; the index key "0" arises from Object.entries of an    *)
(* array and is ordered the way JavaScript orders integer keys.            *)
(***************************************************************************)
EXTENDS Integers, Sequences, FiniteSets, TLC

\* ------------------------------------------------------------------ bounds
MaxNodes == 4
MaxLen == 3

\* ------------------------------------------------------- JavaScript values
Str(s) == [t |-> "str", s |-> s]
Prim(ty) == [t |-> "prim", ty |-> ty]
JNull == [t |-> "null"]
Arr(e) == [t |-> "arr", e |-> e]
Obj(f) == [t |-> "obj", f |-> f]
Field(k, v) == [k |-> k, v |-> v]
TypeError == [t |-> "TypeError"]

Num == Prim("number")
Bool == Prim("boolean")
EmptySentinel == Str("empty[]")

IndexKeys == <<"0", "1", "2", "3", "4", "5", "6", "7">>

IsIndexKey(k) == \E i \in 1..Len(IndexKeys) : IndexKeys[i] = k

IsArray(x) == x.t = "arr"

TypeofBoolAsNumber(x) ==
    IF x.t = "str" THEN "string"
    ELSE IF x.t = "prim" THEN "number"
    ELSE "object"

Typeof(x) ==
    IF x.t = "str" THEN "string"
    ELSE IF x.t = "prim" THEN x.ty
    ELSE "object"

ObjectEntries(x) ==
    IF x.t = "obj" THEN x.f
    ELSE IF x.t = "arr" THEN [i \in 1..Len(x.e) |-> Field(IndexKeys[i], x.e[i])]
    ELSE <<>>

KeysOf(f) == [i \in 1..Len(f) |-> f[i].k]

HasKey(f, key) == \E i \in 1..Len(f) : f[i].k = key

GetProp(f, key) == f[CHOOSE i \in 1..Len(f) : f[i].k = key].v

\* obj[key] = value on an ordinary object: an existing property keeps its
\* place, a new index key goes before the string keys, a new string key last.
SetProp(f, key, value) ==
    IF HasKey(f, key)
    THEN [i \in 1..Len(f) |-> IF f[i].k = key THEN Field(key, value) ELSE f[i]]
    ELSE IF IsIndexKey(key)
    THEN LET n == Cardinality({i \in 1..Len(f) :
                      /\ IsIndexKey(f[i].k)
                      /\ \E a, b \in 1..Len(IndexKeys) :
                            IndexKeys[a] = f[i].k /\ IndexKeys[b] = key /\ a < b})
         IN SubSeq(f, 1, n) \o <<Field(key, value)>> \o SubSeq(f, n + 1, Len(f))
    ELSE Append(f, Field(key, value))

\* -------------------------------------------------------- mergeStructures
RECURSIVE MergeStructures(_)
RECURSIVE MergeStructs(_, _, _)
RECURSIVE MergeEntries(_, _, _)

NotEmptySentinel(item) == item # EmptySentinel

KeyIn(key, merged) == HasKey(merged, key)

\* The entries folded from one element of structures: only what typeof calls
\* an object (an object shape or an array shape) contributes entries.
StructEntries(struct) ==
    IF Typeof(struct) = "object" /\ struct # JNull
    THEN ObjectEntries(struct)
    ELSE <<>>

\* The earlier revision of the conflict rule (README): without an array on
\* either side the existing value is kept as it is.
MergeValueKeepExisting(current, value) ==
    IF IsArray(current) \/ IsArray(value)
    THEN LET currentArray == IF IsArray(current) THEN current.e ELSE <<current>>
             newArray == IF IsArray(value) THEN value.e ELSE <<value>>
             combinedArrays == SelectSeq(currentArray \o newArray, NotEmptySentinel)
         IN IF Len(combinedArrays) > 0
            THEN Arr(<<MergeStructures(combinedArrays)>>)
            ELSE EmptySentinel
    ELSE current

\* A conflict rule whose array branch returns the merge without wrapping it.
MergeValueNoWrap(current, value) ==
    IF IsArray(current) \/ IsArray(value)
    THEN LET currentArray == IF IsArray(current) THEN current.e ELSE <<current>>
             newArray == IF IsArray(value) THEN value.e ELSE <<value>>
             combinedArrays == SelectSeq(currentArray \o newArray, NotEmptySentinel)
         IN IF Len(combinedArrays) > 0
            THEN MergeStructures(combinedArrays)
            ELSE EmptySentinel
    ELSE IF Typeof(current) = "object" /\ Typeof(value) = "object"
    THEN MergeStructures(<<current, value>>)
    ELSE value

\* A conflict rule that replaces an object shape by the later object shape
\* instead of merging the two.
MergeValueShallow(current, value) ==
    IF IsArray(current) \/ IsArray(value)
    THEN LET currentArray == IF IsArray(current) THEN current.e ELSE <<current>>
             newArray == IF IsArray(value) THEN value.e ELSE <<value>>
             combinedArrays == SelectSeq(currentArray \o newArray, NotEmptySentinel)
         IN IF Len(combinedArrays) > 0
            THEN Arr(<<MergeStructures(combinedArrays)>>)
            ELSE EmptySentinel
    ELSE value

\* The value stored under a key that merged already holds.
MergeValue(current, value) ==
    IF IsArray(current) \/ IsArray(value)
    THEN LET currentArray == IF IsArray(current) THEN current.e ELSE <<current>>
             newArray == IF IsArray(value) THEN value.e ELSE <<value>>
             combinedArrays == SelectSeq(currentArray \o newArray, NotEmptySentinel)
         IN IF Len(combinedArrays) > 0
            THEN Arr(<<MergeStructures(combinedArrays)>>)
            ELSE EmptySentinel
    ELSE IF Typeof(current) = "object" /\ Typeof(value) = "object"
    THEN MergeStructures(<<current, value>>)
    ELSE value

\* A merge that adds keys only while merged is still empty.
MergeEntryFirstKeyOnly(merged, key, value) ==
    IF ~KeyIn(key, merged)
    THEN IF Len(merged) = 0 THEN SetProp(merged, key, value) ELSE merged
    ELSE SetProp(merged, key, MergeValue(GetProp(merged, key), value))

MergeEntry(merged, key, value) ==
    IF ~KeyIn(key, merged)
    THEN SetProp(merged, key, value)
    ELSE SetProp(merged, key, MergeValue(GetProp(merged, key), value))

MergeEntries(entries, j, merged) ==
    IF j > Len(entries) THEN merged
    ELSE MergeEntries(entries, j + 1, MergeEntry(merged, entries[j].k, entries[j].v))

MergeStructs(structures, i, merged) ==
    IF i > Len(structures) THEN merged
    ELSE MergeStructs(structures, i + 1,
                      MergeEntries(StructEntries(structures[i]), 1, merged))

MergeStructures(structures) ==
    IF Len(structures) = 0 THEN Obj(<<>>)
    ELSE Obj(MergeStructs(structures, 1, <<>>))

\* ------------------------------------------------- determineJsonStructure
RECURSIVE DetermineJsonStructure(_, _)
RECURSIVE InferEntries(_, _, _, _)
RECURSIVE CountTotalItems(_)
RECURSIVE CountItemsOf(_, _)
RECURSIVE ProcessedBy(_)
RECURSIVE ProcessedByAll(_, _)

IsEmptyArrayNever(data) == FALSE

IsEmptyArray(data) == Len(data.e) = 0

IsNullNever(data) == FALSE

IsNull(data) == data = JNull

\* entries.forEach: structure[key] = determineJsonStructure(value, depth + 1);
\* an exception raised below ends the loop and the call.
InferEntries(entries, j, structure, depth) ==
    IF j > Len(entries) THEN Obj(structure)
    ELSE LET s == DetermineJsonStructure(entries[j].v, depth + 1)
         IN IF s = TypeError THEN TypeError
            ELSE InferEntries(entries, j + 1, SetProp(structure, entries[j].k, s), depth)

\* An analysis that stops descending below the second level.
DetermineJsonStructureDepthLimited(data, depth) ==
    IF depth >= 2 /\ data.t \in {"arr", "obj"} THEN Str("object")
    ELSE IF IsArray(data)
    THEN IF IsEmptyArray(data) THEN EmptySentinel
         ELSE Arr(<<MergeStructures(
                  [i \in 1..Len(data.e) |-> DetermineJsonStructure(data.e[i], depth + 1)])>>)
    ELSE IF IsNull(data) THEN Str("null")
    ELSE IF Typeof(data) = "object"
    THEN InferEntries(ObjectEntries(data), 1, <<>>, depth)
    ELSE Str(Typeof(data))

DetermineJsonStructure(data, depth) ==
    IF IsArray(data)
    THEN IF IsEmptyArray(data) THEN EmptySentinel
         ELSE LET structures ==
                      [i \in 1..Len(data.e) |-> DetermineJsonStructure(data.e[i], depth + 1)]
              IN IF \E i \in 1..Len(structures) : structures[i] = TypeError
                 THEN TypeError
                 ELSE Arr(<<MergeStructures(structures)>>)
    ELSE IF IsNull(data) THEN Str("null")
    ELSE IF Typeof(data) = "object"
    THEN IF data = JNull THEN TypeError   \* Object.entries(null) throws
         ELSE InferEntries(ObjectEntries(data), 1, <<>>, depth)
    ELSE Str(Typeof(data))

\* The children countTotalItems and the traversal visit: the items of an
\* array, the property values of an object.
Children(data) ==
    IF data.t = "arr" THEN data.e
    ELSE IF data.t = "obj" THEN [i \in 1..Len(data.f) |-> data.f[i].v]
    ELSE <<>>

CountItemsOf(children, i) ==
    IF i > Len(children) THEN 0
    ELSE CountTotalItems(children[i]) + CountItemsOf(children, i + 1)

CountTotalItems(data) == 1 + CountItemsOf(Children(data), 1)

\* The number of this.processedItems++ one call performs.
ProcessedByAll(children, i) ==
    IF i > Len(children) THEN 0
    ELSE 1 + ProcessedBy(children[i]) + ProcessedByAll(children, i + 1)

ProcessedBy(data) == ProcessedByAll(Children(data), 1)

\* --------------------------------------------- calculateStructureComplexity
RECURSIVE Traverse(_, _)
RECURSIVE TraverseFieldsFrom(_, _, _, _)
RECURSIVE UniqueFields(_)
RECURSIVE UniqueFieldPaths(_, _)

Max(a, b) == IF a >= b THEN a ELSE b

\* !obj: null, undefined and the empty string are falsy.
Falsy(x) == x.t \in {"null", "undefined"} \/ (x.t = "str" /\ x.s = "")

\* A walk in which an array counts as a level of its own.
TraverseArrayDeeper(obj, depth) ==
    IF Falsy(obj) \/ Typeof(obj) # "object" THEN depth
    ELSE IF IsArray(obj)
    THEN IF Len(obj.e) > 0 THEN Traverse(obj.e[1], depth + 1) ELSE depth
    ELSE TraverseFieldsFrom(obj.f, 1, depth, depth)

\* function traverse(obj, depth): the depth the walk returns.
Traverse(obj, depth) ==
    IF Falsy(obj) \/ Typeof(obj) # "object" THEN depth
    ELSE IF IsArray(obj)
    THEN IF Len(obj.e) > 0 THEN Traverse(obj.e[1], depth) ELSE depth
    ELSE TraverseFieldsFrom(obj.f, 1, depth, depth)

\* for (const [key, value] of Object.entries(obj)): maxDepth after the loop.
TraverseFieldsFrom(entries, j, depth, maxDepth) ==
    IF j > Len(entries) THEN maxDepth
    ELSE LET value == entries[j].v
         IN TraverseFieldsFrom(entries, j + 1, depth,
                IF Typeof(value) = "object" /\ value # JNull
                THEN Max(maxDepth, Traverse(value, depth + 1))
                ELSE maxDepth)

\* The dotted paths of the fields the walk visits (README, Metrics Explained).
UniqueFieldPaths(obj, prefix) ==
    IF Falsy(obj) \/ Typeof(obj) # "object" THEN {}
    ELSE IF IsArray(obj)
    THEN IF Len(obj.e) > 0 THEN UniqueFieldPaths(obj.e[1], prefix) ELSE {}
    ELSE UNION {{Append(prefix, obj.f[j].k)}
                  \cup (IF Typeof(obj.f[j].v) = "object" /\ obj.f[j].v # JNull
                        THEN UniqueFieldPaths(obj.f[j].v, Append(prefix, obj.f[j].k))
                        ELSE {})
                : j \in 1..Len(obj.f)}

UniqueFieldsByPath(obj) == UniqueFieldPaths(obj, <<>>)

\* The uniqueFields set once traverse(structure) has returned.
UniqueFields(obj) ==
    IF Falsy(obj) \/ Typeof(obj) # "object" THEN {}
    ELSE IF IsArray(obj)
    THEN IF Len(obj.e) > 0 THEN UniqueFields(obj.e[1]) ELSE {}
    ELSE UNION {{obj.f[j].k}
                  \cup (IF Typeof(obj.f[j].v) = "object" /\ obj.f[j].v # JNull
                        THEN UniqueFields(obj.f[j].v)
                        ELSE {})
                : j \in 1..Len(obj.f)}

\* A walk that starts the root at depth 1.
CalculateStructureComplexityFromOne(structure) ==
    [maxDepth |-> Traverse(structure, 1),
     uniqueFields |-> Cardinality(UniqueFields(structure))]

CalculateStructureComplexity(structure) ==
    [maxDepth |-> Traverse(structure, 0),
     uniqueFields |-> Cardinality(UniqueFields(structure))]

\* ----------------------------------------------------- the input documents
Keys == {"a", "b"}

PrimValues == {Str("s"), Num, Bool, JNull}

KeySeqs(n) == {ks \in [1..n -> Keys] : \A i, j \in 1..n : i # j => ks[i] # ks[j]}

RECURSIVE TreesOfSize(_)
RECURSIVE Forests(_)

\* The sequences of documents that have m nodes in all.
Forests(m) ==
    IF m = 0 THEN {<<>>}
    ELSE UNION {{<<t>> \o s : t \in TreesOfSize(k), s \in Forests(m - k)} : k \in 1..m}

\* The documents of exactly n nodes (a node is a value of any kind).
TreesOfSize(n) ==
    (IF n = 1 THEN PrimValues ELSE {})
    \cup {Arr(s) : s \in Forests(n - 1)}
    \cup UNION {{Obj([i \in 1..Len(s) |-> Field(ks[i], s[i])]) : ks \in KeySeqs(Len(s))}
                  : s \in Forests(n - 1)}

Trees == UNION {TreesOfSize(n) : n \in 1..MaxNodes}

\* Arrays of up to MaxLen one-field objects, the inputs of the merge.
XObj == Obj(<<Field("x", Num)>>)
YObj == Obj(<<Field("y", Bool)>>)

FieldVals == {Num, Str("s"), Arr(<<>>), XObj, YObj, Arr(<<XObj>>), Arr(<<YObj>>)}

SecondVals == {Num, Arr(<<>>), XObj}

ElemObjs ==
    {Obj(<<Field("a", v)>>) : v \in FieldVals} \cup {Obj(<<Field("b", v)>>) : v \in SecondVals}

RECURSIVE SeqsUpTo(_, _)
SeqsUpTo(S, n) ==
    IF n = 0 THEN {<<>>}
    ELSE LET shorter == SeqsUpTo(S, n - 1)
         IN shorter \cup {Append(s, x) : s \in shorter, x \in S}

ObjArrays == {Arr(s) : s \in SeqsUpTo(ElemObjs, MaxLen)}

\* The documents of the repository's tests (analyzer.test.ts).
ExPrimitives ==
    Obj(<<Field("a", Num), Field("b", Str("x")), Field("c", Bool), Field("d", JNull)>>)
ExNested == Obj(<<Field("a", Obj(<<Field("b", Obj(<<Field("c", Num)>>))>>))>>)
ExEmptyList == Obj(<<Field("list", Arr(<<>>))>>)
ExTags == Obj(<<Field("tags", Arr(<<Str("a"), Str("b")>>))>>)
ExMerged ==
    Arr(<<Obj(<<Field("a", Num)>>), Obj(<<Field("b", Num)>>),
          Obj(<<Field("a", Num), Field("c", Num)>>)>>)
ExDeep ==
    Arr(<<Obj(<<Field("a", Obj(<<Field("x", Num)>>)),
                Field("nested", Arr(<<Obj(<<Field("z", Num)>>)>>))>>),
          Obj(<<Field("a", Obj(<<Field("y", Bool)>>)),
                Field("nested", Arr(<<Obj(<<Field("z", Num)>>),
                                      Obj(<<Field("w", Str("hi"))>>)>>))>>)>>)
ExRootNumbers == Arr(<<Num, Num, Num>>)
ExUnion == Arr(<<Num, Str("a"), Num>>)

\* The documents of complexity.test.ts.
ExFlat == Obj(<<Field("a", Num), Field("b", Num)>>)
ExChain ==
    Obj(<<Field("a", Obj(<<Field("b", Obj(<<Field("c", Obj(<<Field("d", Num)>>))>>))>>))>>)
ExInner ==
    Arr(<<Obj(<<Field("x", Obj(<<Field("y", Num)>>))>>),
          Obj(<<Field("x", Obj(<<Field("z", Num)>>))>>)>>)

Examples ==
    {ExPrimitives, ExNested, ExEmptyList, ExTags, ExMerged, ExDeep, ExRootNumbers, ExUnion,
     ExFlat, ExChain, ExInner}

Inputs == Trees \cup ObjArrays \cup Examples

\* Documents analysed on the same instance before or between the calls on input.
OtherDocs == {ExMerged}

\* ------------------------------------------------------------ the analyzer
VARIABLES input, data, result, pc, processedItems, totalItems, firstResult, history
\* calculateStructureComplexity: its argument, what it returned, and the same
\* for the argument with one sub-shape wrapped in an array.
VARIABLES structure, metrics, wrapped, wrappedMetrics, wrappedAt

analyzerVars ==
    <<input, data, result, pc, processedItems, totalItems, firstResult, history>>

metricVars == <<structure, metrics, wrapped, wrappedMetrics, wrappedAt>>

\* A run of the command (index.ts): the command line, what parseCliArgs
\* returned, where main is, the text read (<<>> before it is read, <<text>>
\* after) and the text given to JSON.parse,
\* the decoded value, what went to stdout and stderr, the files written,
\* whether the output directory was made, the exit status.
VARIABLES argv, options, mainPc, rawText, json, parsed, stdout, stderr, written, dirMade,
          exitCode

mainVars ==
    <<argv, options, mainPc, rawText, json, parsed, stdout, stderr, written, dirMade,
      exitCode>>

\* The logger's flags, the depth argument of the last call of
\* determineJsonStructure and the number of lines it logged.
VARIABLES verbose, silent, depthArg, logged

depthVars == <<verbose, silent, depthArg, logged>>

\* The objects and arrays of the program as cells of a heap (a cell's address
\* is its index), the reference to the stored input, the references the calls
\* of determineJsonStructure returned, the heap as it was when the last call
\* began, and whether every call of mergeStructures so far left the cells
\* that existed when it began as they were.
VARIABLES heap, dataRef, shapeRefs, before, mergesClean

heapVars == <<heap, dataRef, shapeRefs, before, mergesClean>>

\* Two invocations of determineJsonStructure on one analyzer, each with its
\* document, its position in its own sequence of steps, the progress values
\* it has reported and its return value, and the invocations now on the call
\* stack (the last one is running).
VARIABLES calls, stack

interleaveVars == <<calls, stack>>

\* What only the specifications that call the analyzer directly change.
harnessVars == <<depthVars, heapVars, interleaveVars>>

exceptAnalyzer == <<metricVars, mainVars, harnessVars>>

exceptMetric == <<analyzerVars, mainVars, harnessVars>>

vars == <<analyzerVars, metricVars, mainVars, harnessVars>>

NoValue == [t |-> "undefined"]

\* new JsonAnalyzer(logger): nothing analysed yet.
AnalyzerIdle ==
    /\ data = NoValue
    /\ result = NoValue
    /\ pc = "idle"
    /\ processedItems = 0
    /\ totalItems = 0
    /\ firstResult = NoValue
    /\ history = "none"

MetricsIdle ==
    /\ structure = NoValue
    /\ metrics = NoValue
    /\ wrapped = NoValue
    /\ wrappedMetrics = NoValue
    /\ wrappedAt = <<>>

\* The command has not been started; exitCode is -1 until the process exits.
MainIdle ==
    /\ argv = NoValue
    /\ options = NoValue
    /\ mainPc = "unstarted"
    /\ rawText = <<>>
    /\ json = <<>>
    /\ parsed = NoValue
    /\ stdout = <<>>
    /\ stderr = <<>>
    /\ written = {}
    /\ dirMade = FALSE
    /\ exitCode = -1

\* A logger that prints nothing but errors, no call made with a depth.
DepthIdle ==
    /\ verbose = FALSE
    /\ silent = TRUE
    /\ depthArg = 0
    /\ logged = 0

HeapIdle ==
    /\ heap = <<>>
    /\ dataRef = NoValue
    /\ shapeRefs = <<>>
    /\ before = <<>>
    /\ mergesClean = TRUE

\* No invocation is under way.
InterleaveIdle ==
    /\ calls = <<>>
    /\ stack = <<>>

HarnessIdle == DepthIdle /\ HeapIdle /\ InterleaveIdle

Init ==
    /\ input \in Inputs
    /\ AnalyzerIdle
    /\ MetricsIdle
    /\ MainIdle
    /\ HarnessIdle

\* A merge accumulator kept on the instance: a call folds what the previous
\* call returned into its own result.
CallResultAccumulating(v) ==
    LET r == DetermineJsonStructure(v, 0)
    IN IF pc = "returned" /\ IsArray(result) /\ IsArray(r)
       THEN Arr(<<MergeStructures(<<result.e[1], r.e[1]>>)>>)
       ELSE r

CallResult(v) == DetermineJsonStructure(v, 0)

\* analyzer.determineJsonStructure(v): one call at depth 0, start to return.
CallEffect(v) ==
    LET r == CallResult(v)
    IN /\ data' = v
       /\ totalItems' = CountTotalItems(v)
       /\ IF r = TypeError
          THEN /\ pc' = "threw"
               /\ processedItems' \in 0..ProcessedBy(v)
               /\ UNCHANGED <<result, firstResult, history>>
          ELSE /\ pc' = "returned"
               /\ processedItems' = ProcessedBy(v)
               /\ result' = r
               /\ firstResult' = IF v = input /\ firstResult = NoValue
                                 THEN r ELSE firstResult
               /\ history' = IF v = input /\ history = "none" THEN "first"
                             ELSE IF v # input /\ history = "first" THEN "other"
                             ELSE history
       /\ UNCHANGED input

Call(v) ==
    /\ CallEffect(v)
    /\ UNCHANGED exceptAnalyzer

Next == \E v \in {input} \cup OtherDocs : Call(v)

Spec == Init /\ [][Next]_vars

Returned == pc = "returned"

\* ------------------------------------------- the analyzer and its metrics
\* analyzer.calculateStructureComplexity(structure) on what the last call of
\* determineJsonStructure returned.
Complexity ==
    /\ Returned
    /\ metrics = NoValue
    /\ structure' = result
    /\ metrics' = CalculateStructureComplexity(result)
    /\ UNCHANGED <<wrapped, wrappedMetrics, wrappedAt>>
    /\ UNCHANGED exceptMetric

Analyze ==
    /\ pc = "idle"
    /\ Call(input)

NextMetrics == Analyze \/ Complexity

SpecMetrics == Init /\ [][NextMetrics]_vars

\* ------------------------------------------------ metrics of wrapped shapes
\* The shapes determineJsonStructure returns for the input documents.
InferredShapes == {DetermineJsonStructure(v, 0) : v \in Inputs}

\* The places of the sub-shapes of a shape: the root is <<>>, a step is the
\* index of a field of an object or of an element of an array.
RECURSIVE Positions(_)
Positions(s) ==
    {<<>>}
    \cup (IF s.t = "obj"
          THEN UNION {{<<j>> \o q : q \in Positions(s.f[j].v)} : j \in 1..Len(s.f)}
          ELSE IF s.t = "arr"
          THEN UNION {{<<j>> \o q : q \in Positions(s.e[j])} : j \in 1..Len(s.e)}
          ELSE {})

RECURSIVE SubShape(_, _)
SubShape(s, q) ==
    IF Len(q) = 0 THEN s
    ELSE IF s.t = "obj" THEN SubShape(s.f[q[1]].v, Tail(q))
    ELSE SubShape(s.e[q[1]], Tail(q))

\* s with the sub-shape X at q replaced by [X].
RECURSIVE WrapAt(_, _)
WrapAt(s, q) ==
    IF Len(q) = 0 THEN Arr(<<s>>)
    ELSE IF s.t = "obj"
    THEN Obj([j \in 1..Len(s.f) |->
                IF j = q[1] THEN Field(s.f[j].k, WrapAt(s.f[j].v, Tail(q))) ELSE s.f[j]])
    ELSE Arr([j \in 1..Len(s.e) |-> IF j = q[1] THEN WrapAt(s.e[j], Tail(q)) ELSE s.e[j]])

InitWrap ==
    /\ input = NoValue
    /\ AnalyzerIdle
    /\ structure \in InferredShapes
    /\ metrics = NoValue
    /\ wrapped = NoValue
    /\ wrappedMetrics = NoValue
    /\ wrappedAt = <<>>
    /\ MainIdle
    /\ HarnessIdle

Measure ==
    /\ metrics = NoValue
    /\ metrics' = CalculateStructureComplexity(structure)
    /\ UNCHANGED <<structure, wrapped, wrappedMetrics, wrappedAt>>
    /\ UNCHANGED exceptMetric

\* calculateStructureComplexity on the shape with the sub-shape at q wrapped.
MeasureWrapped(q) ==
    /\ metrics # NoValue
    /\ wrapped = NoValue
    /\ wrapped' = WrapAt(structure, q)
    /\ wrappedAt' = q
    /\ wrappedMetrics' = CalculateStructureComplexity(WrapAt(structure, q))
    /\ UNCHANGED <<structure, metrics>>
    /\ UNCHANGED exceptMetric

NextWrap == Measure \/ \E q \in Positions(structure) : MeasureWrapped(q)

SpecWrap == InitWrap /\ [][NextWrap]_vars

\* ------------------------------------------------------------ the command
\* Texts are sequences of characters of TextChars, of up to MaxText
\* characters; command lines hold up to MaxArgs options and operands.
MaxText == 4
MaxArgs == 3

TextChars == {"'", "[", "]", " "}

Texts == SeqsUpTo(TextChars, MaxText)

\* The files of the run: data.json is a readable file, dir.json exists and
\* cannot be read as a file, data.txt is a readable file, missing.json is not
\* there.
ExistingPaths == {"data.json", "dir.json", "data.txt"}

ExistsSync(path) == path \in ExistingPaths

Extname(path) == IF path \in {"data.txt", "out.txt"} THEN ".txt" ELSE ".json"

SUPPORTED_EXTENSIONS == {".json"}

DefaultOutputPath == "output/structure.json"

\* parseArgs: the values of the options (<<>> for an option not given) and
\* the positionals.
AllArgvs ==
    [help : BOOLEAN, version : BOOLEAN, stdin : BOOLEAN, print : BOOLEAN,
     input : {<<>>, <<"data.json">>, <<"missing.json">>},
     output : {<<>>, <<"out.json">>, <<"dir.json">>},
     positionals : {<<>>, <<"">>, <<"data.json">>, <<"data.txt">>, <<"missing.json">>,
                    <<"dir.json">>}]

ArgCount(a) ==
    (IF a.help THEN 1 ELSE 0) + (IF a.version THEN 1 ELSE 0) + (IF a.stdin THEN 1 ELSE 0)
    + (IF a.print THEN 1 ELSE 0) + Len(a.input) + Len(a.output) + Len(a.positionals)

Argvs == {a \in AllArgvs : ArgCount(a) <= MaxArgs}

Exit(code, out, err) == [kind |-> "exit", code |-> code, stdout |-> out, stderr |-> err]

RequiredMsg == "Error: input path or --stdin required"
PathRequiredMsg == "Error: Input file path is required"
NotFoundMsg == "Error: Input file not found"
UnsupportedMsg == "Error: Unsupported file type"
InvalidJsonMsg == "Invalid JSON format in input file"
NoInputMsg == "No input provided"
ReadErrorMsg == "EISDIR: illegal operation on a directory, read"
WriteErrorMsg == "EISDIR: illegal operation on a directory, open"

\* validateInputPath: the message it exits with, <<>> when it returns.
ValidateInputPath(path) ==
    IF path = "" THEN <<PathRequiredMsg>>
    ELSE IF ~ExistsSync(path) THEN <<NotFoundMsg>>
    ELSE IF Extname(path) \notin SUPPORTED_EXTENSIONS THEN <<UnsupportedMsg>>
    ELSE <<>>

\* values.input || positionals[0]: "" when neither is a non-empty string.
Supplied(a) ==
    IF Len(a.input) > 0 /\ a.input[1] # "" THEN a.input[1]
    ELSE IF Len(a.positionals) > 0 THEN a.positionals[1]
    ELSE ""

ParseCliArgs(a) ==
    IF a.version THEN Exit(0, <<"version">>, <<>>)
    ELSE IF a.help \/ (Len(a.positionals) = 0 /\ Supplied(a) = "" /\ ~a.stdin)
    THEN Exit(0, <<"help">>, <<>>)
    ELSE IF ~a.stdin /\ Supplied(a) = "" THEN Exit(1, <<>>, <<RequiredMsg>>)
    ELSE IF ~a.stdin /\ ValidateInputPath(Supplied(a)) # <<>>
    THEN Exit(1, <<>>, ValidateInputPath(Supplied(a)))
    ELSE [kind |-> "options",
          options |->
              [inputPath |-> IF a.stdin THEN <<>> ELSE <<Supplied(a)>>,
               outputPath |-> IF a.print THEN <<>>
                              ELSE IF Len(a.output) > 0 /\ a.output[1] # "" THEN a.output
                              ELSE <<DefaultOutputPath>>,
               print |-> a.print,
               stdin |-> a.stdin]]

\* String.prototype.trim on these texts.
RECURSIVE TrimStart(_)
TrimStart(t) == IF Len(t) > 0 /\ t[1] = " " THEN TrimStart(Tail(t)) ELSE t

RECURSIVE TrimEnd(_)
TrimEnd(t) ==
    IF Len(t) > 0 /\ t[Len(t)] = " " THEN TrimEnd(SubSeq(t, 1, Len(t) - 1)) ELSE t

Trim(t) == TrimEnd(TrimStart(t))

SanitizeStdinJson(raw) ==
    LET trimmed == Trim(raw)
    IN IF Len(trimmed) > 0 /\ trimmed[1] = "'" /\ trimmed[Len(trimmed)] = "'"
       THEN LET inner == SubSeq(trimmed, 2, Len(trimmed) - 1)
            IN IF Len(inner) > 0 /\ inner[1] \in {"{", "["} THEN inner ELSE trimmed
       ELSE trimmed

\* JSON.parse on these texts: white space, and arrays of at most one element
\* (there is no comma among the characters); anything else is a SyntaxError.
RECURSIVE SkipWs(_, _)
SkipWs(t, i) == IF i <= Len(t) /\ t[i] = " " THEN SkipWs(t, i + 1) ELSE i

SyntaxError == [ok |-> FALSE]

RECURSIVE ParseValue(_, _)
ParseValue(t, i) ==
    IF i > Len(t) \/ t[i] # "[" THEN SyntaxError
    ELSE LET j == SkipWs(t, i + 1)
         IN IF j <= Len(t) /\ t[j] = "]"
            THEN [ok |-> TRUE, v |-> Arr(<<>>), next |-> j + 1]
            ELSE LET r == ParseValue(t, j)
                 IN IF ~r.ok THEN SyntaxError
                    ELSE LET k == SkipWs(t, r.next)
                         IN IF k <= Len(t) /\ t[k] = "]"
                            THEN [ok |-> TRUE, v |-> Arr(<<r.v>>), next |-> k + 1]
                            ELSE SyntaxError

\* A parser that stops at the end of the first value and ignores the rest.
JsonParsePrefix(t) == ParseValue(t, SkipWs(t, 1))

JsonParse(t) ==
    LET r == ParseValue(t, SkipWs(t, 1))
    IN IF r.ok /\ SkipWs(t, r.next) > Len(t) THEN r ELSE SyntaxError

InitMain ==
    /\ input = NoValue
    /\ AnalyzerIdle
    /\ MetricsIdle
    /\ argv \in Argvs
    /\ options = NoValue
    /\ mainPc = "start"
    /\ rawText = <<>>
    /\ json = <<>>
    /\ parsed = NoValue
    /\ stdout = <<>>
    /\ stderr = <<>>
    /\ written = {}
    /\ dirMade = FALSE
    /\ exitCode = -1
    /\ HarnessIdle

\* process.exit(code) after the given lines went to stdout and stderr.
ProcessExit(code, out, err) ==
    /\ mainPc' = "exited"
    /\ exitCode' = code
    /\ stdout' = stdout \o out
    /\ stderr' = stderr \o err

\* The module body of index.ts up to the call of main.
Startup ==
    /\ mainPc = "start"
    /\ LET r == ParseCliArgs(argv)
       IN IF r.kind = "exit"
          THEN /\ ProcessExit(r.code, r.stdout, r.stderr)
               /\ UNCHANGED <<options, dirMade>>
          ELSE /\ options' = r.options
               /\ dirMade' = (Len(r.options.outputPath) > 0)
               /\ mainPc' = "main"
               /\ UNCHANGED <<exitCode, stdout, stderr>>
    /\ UNCHANGED <<argv, rawText, json, parsed, written>>
    /\ UNCHANGED <<analyzerVars, metricVars>>
    /\ UNCHANGED harnessVars

\* The catch block of main for an error that is not a SyntaxError.
CatchError(message) == ProcessExit(1, <<>>, <<message>>)

\* readInput: the text of STDIN, sanitised, or the text of the input file.
ReadInput ==
    /\ mainPc = "main"
    /\ IF options.stdin
       THEN \E raw \in Texts :
                /\ rawText' = <<raw>>
                /\ json' = SanitizeStdinJson(raw)
                /\ mainPc' = "read"
                /\ UNCHANGED <<exitCode, stdout, stderr>>
       ELSE IF Len(options.inputPath) > 0
       THEN IF options.inputPath[1] = "dir.json"
            THEN /\ CatchError(ReadErrorMsg)
                 /\ UNCHANGED <<rawText, json>>
            ELSE \E text \in Texts :
                     /\ rawText' = <<text>>
                     /\ json' = text
                     /\ mainPc' = "read"
                     /\ UNCHANGED <<exitCode, stdout, stderr>>
       ELSE /\ CatchError(NoInputMsg)
            /\ UNCHANGED <<rawText, json>>
    /\ UNCHANGED <<argv, options, parsed, written, dirMade>>
    /\ UNCHANGED <<analyzerVars, metricVars>>
    /\ UNCHANGED harnessVars

\* parseJson, and the catch block of main for a SyntaxError.
ParseJson ==
    /\ mainPc = "read"
    /\ LET r == JsonParse(json)
       IN IF r.ok
          THEN /\ parsed' = r.v
               /\ mainPc' = "parsed"
               /\ UNCHANGED <<exitCode, stdout, stderr>>
          ELSE /\ ProcessExit(1, <<>>, <<InvalidJsonMsg>>)
               /\ UNCHANGED parsed
    /\ UNCHANGED <<argv, options, rawText, json, written, dirMade>>
    /\ UNCHANGED <<analyzerVars, metricVars>>
    /\ UNCHANGED harnessVars

\* analyzeStructure: jsonAnalyzer.determineJsonStructure(data).
AnalyzeStructure ==
    /\ mainPc = "parsed"
    /\ CallEffect(parsed)
    /\ IF CallResult(parsed) = TypeError
       THEN CatchError("TypeError")
       ELSE /\ mainPc' = "analyzed"
            /\ UNCHANGED <<exitCode, stdout, stderr>>
    /\ UNCHANGED <<argv, options, rawText, json, parsed, written, dirMade>>
    /\ UNCHANGED metricVars
    /\ UNCHANGED harnessVars

\* An outputResults whose failed write leaves the output file behind.
OutputResultsWriteThenFail ==
    /\ mainPc = "analyzed"
    /\ IF options.print
       THEN /\ stdout' = Append(stdout, "structure")
            /\ mainPc' = "output"
            /\ UNCHANGED <<written, stderr, exitCode>>
       ELSE IF Len(options.outputPath) > 0
       THEN IF options.outputPath[1] = "dir.json"
            THEN /\ CatchError(WriteErrorMsg)
                 /\ written' = written \cup {options.outputPath[1]}
            ELSE /\ written' = written \cup {options.outputPath[1]}
                 /\ mainPc' = "output"
                 /\ UNCHANGED <<stdout, stderr, exitCode>>
       ELSE /\ mainPc' = "output"
            /\ UNCHANGED <<stdout, written, stderr, exitCode>>
    /\ UNCHANGED <<argv, options, rawText, json, parsed, dirMade>>
    /\ UNCHANGED <<analyzerVars, metricVars>>
    /\ UNCHANGED harnessVars

\* outputResults: the structure goes to stdout, or else to the output file;
\* Bun.write on a path that is a directory throws and main's catch block
\* ends the run.
OutputResults ==
    /\ mainPc = "analyzed"
    /\ IF options.print
       THEN /\ stdout' = Append(stdout, "structure")
            /\ mainPc' = "output"
            /\ UNCHANGED <<written, stderr, exitCode>>
       ELSE IF Len(options.outputPath) > 0
       THEN IF options.outputPath[1] = "dir.json"
            THEN /\ CatchError(WriteErrorMsg)
                 /\ UNCHANGED written
            ELSE /\ written' = written \cup {options.outputPath[1]}
                 /\ mainPc' = "output"
                 /\ UNCHANGED <<stdout, stderr, exitCode>>
       ELSE /\ mainPc' = "output"
            /\ UNCHANGED <<stdout, written, stderr, exitCode>>
    /\ UNCHANGED <<argv, options, rawText, json, parsed, dirMade>>
    /\ UNCHANGED <<analyzerVars, metricVars>>
    /\ UNCHANGED harnessVars

\* The rest of main: the metrics, the summary, process.exit(0).
Summarise ==
    /\ mainPc = "output"
    /\ structure' = result
    /\ metrics' = CalculateStructureComplexity(result)
    /\ ProcessExit(0, <<>>, <<>>)
    /\ UNCHANGED <<wrapped, wrappedMetrics, wrappedAt>>
    /\ UNCHANGED <<argv, options, rawText, json, parsed, written, dirMade>>
    /\ UNCHANGED analyzerVars
    /\ UNCHANGED harnessVars

NextMain ==
    \/ Startup
    \/ ReadInput
    \/ ParseJson
    \/ AnalyzeStructure
    \/ OutputResults
    \/ Summarise

SpecMain == InitMain /\ [][NextMain]_vars

\* ------------------------------------- calls with a depth and a logger
MaxDepthArg == 2
MaxProcessed == 8

Depths == -1..MaxDepthArg

\* The documents analysed with a depth argument.
DepthInputs ==
    UNION {TreesOfSize(n) : n \in 1..(MaxNodes - 2)}
    \cup {v \in Examples : ProcessedBy(v) <= MaxProcessed}

\* What a call leaves besides its result: the two counters of the analyzer
\* and the number of lines printed, as [p, t, n].
RECURSIVE Effects(_, _, _, _)
RECURSIVE ItemEffects(_, _, _, _, _)
RECURSIVE EntryEffects(_, _, _, _, _)

\* logger.verboseLog(message)
VerboseLog(lg, st) == IF lg.verbose /\ ~lg.silent THEN [st EXCEPT !.n = @ + 1] ELSE st

ItemEffects(items, i, depth, lg, st) ==
    IF i > Len(items) THEN st
    ELSE LET counted == [st EXCEPT !.p = @ + 1]
             reported == IF lg.verbose /\ (i - 1) % 100 = 0 /\ depth = 0
                         THEN VerboseLog(lg, counted) ELSE counted
         IN ItemEffects(items, i + 1, depth, lg, Effects(items[i], depth + 1, lg, reported))

EntryEffects(entries, i, depth, lg, st) ==
    IF i > Len(entries) THEN st
    ELSE LET counted == [st EXCEPT !.p = @ + 1]
             reported ==
                 IF lg.verbose /\ ((i - 1) % 1000 = 0 \/ i = Len(entries)) /\ depth = 0
                 THEN VerboseLog(lg, counted) ELSE counted
         IN EntryEffects(entries, i + 1, depth, lg,
                         Effects(entries[i].v, depth + 1, lg, reported))

Effects(value, depth, lg, st) ==
    LET started == IF depth = 0
                   THEN VerboseLog(lg, [p |-> 0, t |-> CountTotalItems(value), n |-> st.n])
                   ELSE st
    IN IF IsArray(value)
       THEN IF Len(value.e) = 0 THEN started
            ELSE ItemEffects(value.e, 1, depth, lg, started)
       ELSE IF value = JNull THEN started
       ELSE IF Typeof(value) = "object"
       THEN EntryEffects(ObjectEntries(value), 1, depth, lg,
                         IF depth = 0 /\ lg.verbose THEN VerboseLog(lg, started) ELSE started)
       ELSE started

InitDepth ==
    /\ input \in DepthInputs
    /\ AnalyzerIdle
    /\ MetricsIdle
    /\ MainIdle
    /\ verbose \in BOOLEAN
    /\ silent \in BOOLEAN
    /\ depthArg = 0
    /\ logged = 0
    /\ HeapIdle
    /\ InterleaveIdle

\* logger.verbose and logger.silent are public fields of the logger.
SetFlags(v, s) ==
    /\ <<v, s>> # <<verbose, silent>>
    /\ verbose' = v
    /\ silent' = s
    /\ UNCHANGED <<depthArg, logged>>
    /\ UNCHANGED <<analyzerVars, metricVars, mainVars, heapVars, interleaveVars>>

\* analyzer.determineJsonStructure(input, d)
CallAt(d) ==
    LET st == Effects(input, d, [verbose |-> verbose, silent |-> silent],
                      [p |-> processedItems, t |-> totalItems, n |-> 0])
        r == DetermineJsonStructure(input, d)
    IN /\ st.p <= MaxProcessed
       /\ data' = input
       /\ result' = r
       /\ pc' = "returned"
       /\ processedItems' = st.p
       /\ totalItems' = st.t
       /\ logged' = st.n
       /\ depthArg' = d
       /\ firstResult' = IF firstResult = NoValue THEN r ELSE firstResult
       /\ history' = IF history = "none" THEN "first" ELSE history
       /\ UNCHANGED <<input, verbose, silent>>
       /\ UNCHANGED <<metricVars, mainVars, heapVars, interleaveVars>>

NextDepth ==
    \/ \E d \in Depths : CallAt(d)
    \/ \E v, s \in BOOLEAN : SetFlags(v, s)

SpecDepth == InitDepth /\ [][NextDepth]_vars

\* ------------------------------------------------ objects with identity
MaxCalls == 2

Ref(a) == [t |-> "ref", a |-> a]

IsRef(x) == x.t = "ref"

\* A value of the pure model stored as cells: [h, r], the heap and the value
\* (a reference for an object or an array).
RECURSIVE Store(_, _)
RECURSIVE StoreAll(_, _, _, _)
StoreAll(vals, i, h, refs) ==
    IF i > Len(vals) THEN [h |-> h, refs |-> refs]
    ELSE LET st == Store(vals[i], h)
         IN StoreAll(vals, i + 1, st.h, Append(refs, st.r))

Store(v, h) ==
    IF v.t \in {"arr", "obj"}
    THEN LET st == StoreAll(Children(v), 1, h, <<>>)
             cell == IF v.t = "arr" THEN Arr(st.refs)
                     ELSE Obj([i \in 1..Len(v.f) |-> Field(v.f[i].k, st.refs[i])])
         IN [h |-> Append(st.h, cell), r |-> Ref(Len(st.h) + 1)]
    ELSE [h |-> h, r |-> v]

\* The value a reference stands for.
RECURSIVE Deref(_, _)
Deref(x, h) ==
    IF ~IsRef(x) THEN x
    ELSE LET cell == h[x.a]
         IN IF cell.t = "arr" THEN Arr([i \in 1..Len(cell.e) |-> Deref(cell.e[i], h)])
            ELSE Obj([i \in 1..Len(cell.f) |-> Field(cell.f[i].k, Deref(cell.f[i].v, h))])

HIsArray(x, h) == IsRef(x) /\ h[x.a].t = "arr"

HTypeof(x, h) == IF IsRef(x) THEN "object" ELSE Typeof(x)

HEntries(x, h) == ObjectEntries(h[x.a])

\* No cell that h holds differs in h2.
SameCells(h, h2) == \A a \in 1..Len(h) : h2[a] = h[a]

\* obj[key] = value on the cell at a.
HSetProp(h, a, key, value) == [h EXCEPT ![a].f = SetProp(@, key, value)]

\* An accumulator that is the first structure itself when that is an object.
FirstAsAccumulator(structures, h) ==
    IF IsRef(structures[1]) /\ h[structures[1].a].t = "obj"
    THEN [h |-> h, a |-> structures[1].a]
    ELSE [h |-> Append(h, Obj(<<>>)), a |-> Len(h) + 1]

\* const merged = {}
NewAccumulator(structures, h) == [h |-> Append(h, Obj(<<>>)), a |-> Len(h) + 1]

\* mergeStructures and determineJsonStructure on cells: [h, r, clean], the
\* heap afterwards, the value returned, and whether every call of
\* mergeStructures inside left the cells that existed when it began unchanged.
RECURSIVE HMergeStructures(_, _)
RECURSIVE HMergeStructs(_, _, _, _, _)
RECURSIVE HMergeEntries(_, _, _, _, _)
RECURSIVE HDetermine(_, _)
RECURSIVE HDetermineItems(_, _, _, _, _)
RECURSIVE HDetermineEntries(_, _, _, _, _)

\* One entry of one structure met by the accumulator at m: [h, clean].
HMergeEntry(m, key, value, h) ==
    IF ~KeyIn(key, h[m].f)
    THEN [h |-> HSetProp(h, m, key, value), clean |-> TRUE]
    ELSE LET current == GetProp(h[m].f, key)
         IN IF HIsArray(current, h) \/ HIsArray(value, h)
            THEN LET currentArray ==
                         IF HIsArray(current, h) THEN h[current.a].e ELSE <<current>>
                     newArray == IF HIsArray(value, h) THEN h[value.a].e ELSE <<value>>
                     combinedArrays ==
                         SelectSeq(currentArray \o newArray, NotEmptySentinel)
                 IN IF Len(combinedArrays) > 0
                    THEN LET sub == HMergeStructures(combinedArrays, h)
                             wrapper == Len(sub.h) + 1
                         IN [h |-> HSetProp(Append(sub.h, Arr(<<sub.r>>)), m, key,
                                            Ref(wrapper)),
                             clean |-> sub.clean]
                    ELSE [h |-> HSetProp(h, m, key, EmptySentinel), clean |-> TRUE]
            ELSE IF HTypeof(current, h) = "object" /\ HTypeof(value, h) = "object"
            THEN LET sub == HMergeStructures(<<current, value>>, h)
                 IN [h |-> HSetProp(sub.h, m, key, sub.r), clean |-> sub.clean]
            ELSE [h |-> HSetProp(h, m, key, value), clean |-> TRUE]

HMergeEntries(entries, j, m, h, clean) ==
    IF j > Len(entries) THEN [h |-> h, clean |-> clean]
    ELSE LET step == HMergeEntry(m, entries[j].k, entries[j].v, h)
         IN HMergeEntries(entries, j + 1, m, step.h, clean /\ step.clean)

HMergeStructs(structures, i, m, h, clean) ==
    IF i > Len(structures) THEN [h |-> h, clean |-> clean]
    ELSE LET entries == IF IsRef(structures[i]) THEN HEntries(structures[i], h) ELSE <<>>
             step == HMergeEntries(entries, 1, m, h, clean)
         IN HMergeStructs(structures, i + 1, m, step.h, step.clean)

HMergeStructures(structures, h) ==
    IF Len(structures) = 0
    THEN [h |-> Append(h, Obj(<<>>)), r |-> Ref(Len(h) + 1), clean |-> TRUE]
    ELSE LET acc == NewAccumulator(structures, h)
             done == HMergeStructs(structures, 1, acc.a, acc.h, TRUE)
         IN [h |-> done.h, r |-> Ref(acc.a), clean |-> done.clean /\ SameCells(h, done.h)]

HDetermineItems(items, i, h, structures, clean) ==
    IF i > Len(items) THEN [h |-> h, structures |-> structures, clean |-> clean]
    ELSE LET one == HDetermine(items[i], h)
         IN HDetermineItems(items, i + 1, one.h, Append(structures, one.r),
                            clean /\ one.clean)

HDetermineEntries(entries, j, s, h, clean) ==
    IF j > Len(entries) THEN [h |-> h, clean |-> clean]
    ELSE LET one == HDetermine(entries[j].v, h)
         IN HDetermineEntries(entries, j + 1, s, HSetProp(one.h, s, entries[j].k, one.r),
                              clean /\ one.clean)

HDetermine(x, h) ==
    IF HIsArray(x, h)
    THEN IF Len(h[x.a].e) = 0 THEN [h |-> h, r |-> EmptySentinel, clean |-> TRUE]
         ELSE LET items == HDetermineItems(h[x.a].e, 1, h, <<>>, TRUE)
                  merged == HMergeStructures(items.structures, items.h)
              IN [h |-> Append(merged.h, Arr(<<merged.r>>)),
                  r |-> Ref(Len(merged.h) + 1),
                  clean |-> items.clean /\ merged.clean]
    ELSE IF x = JNull THEN [h |-> h, r |-> Str("null"), clean |-> TRUE]
    ELSE IF HTypeof(x, h) = "object"
    THEN LET s == Len(h) + 1
             done == HDetermineEntries(HEntries(x, h), 1, s, Append(h, Obj(<<>>)), TRUE)
         IN [h |-> done.h, r |-> Ref(s), clean |-> done.clean]
    ELSE [h |-> h, r |-> Str(Typeof(x)), clean |-> TRUE]

\* The documents analysed as cells.
HeapInputs ==
    {Arr(q) : q \in SeqsUpTo(ElemObjs, MaxLen - 1)}
    \cup UNION {TreesOfSize(n) : n \in 1..(MaxNodes - 1)}
    \cup Examples

InitHeap ==
    /\ input \in HeapInputs
    /\ AnalyzerIdle
    /\ MetricsIdle
    /\ MainIdle
    /\ DepthIdle
    /\ InterleaveIdle
    /\ heap = Store(input, <<>>).h
    /\ dataRef = Store(input, <<>>).r
    /\ shapeRefs = <<>>
    /\ before = <<>>
    /\ mergesClean = TRUE

\* analyzer.determineJsonStructure(v) on the stored input.
HeapAnalyze ==
    /\ Len(shapeRefs) < MaxCalls
    /\ LET call == HDetermine(dataRef, heap)
       IN /\ heap' = call.h
          /\ shapeRefs' = Append(shapeRefs, call.r)
          /\ mergesClean' = (mergesClean /\ call.clean)
    /\ before' = heap
    /\ UNCHANGED <<input, dataRef>>
    /\ UNCHANGED <<data, result, pc, processedItems, totalItems, firstResult, history>>
    /\ UNCHANGED <<metricVars, mainVars, depthVars, interleaveVars>>

\* analyzer.calculateStructureComplexity(shape) on a shape returned earlier:
\* the walk reads the cells and assigns to none.
HeapComplexity(i) ==
    /\ structure' = Deref(shapeRefs[i], heap)
    /\ metrics' = CalculateStructureComplexity(Deref(shapeRefs[i], heap))
    /\ structure' # structure
    /\ before' = heap
    /\ UNCHANGED <<wrapped, wrappedMetrics, wrappedAt>>
    /\ UNCHANGED <<heap, dataRef, shapeRefs, mergesClean>>
    /\ UNCHANGED <<analyzerVars, mainVars, depthVars, interleaveVars>>

NextHeap ==
    \/ HeapAnalyze
    \/ \E i \in 1..Len(shapeRefs) : HeapComplexity(i)

SpecHeap == InitHeap /\ [][NextHeap]_vars

\* ------------------------------- invocations interleaved on one analyzer
\* The steps of determineJsonStructure(value, depth) in the order the code
\* takes them: at depth 0 the reset of the two counters of the instance, then
\* for every item or field this.processedItems++ with or without a progress
\* report, followed by the steps of the recursive call on it.
RECURSIVE StepsOf(_, _)
RECURSIVE ItemSteps(_, _, _)
RECURSIVE EntrySteps(_, _, _)

ItemSteps(items, i, depth) ==
    IF i > Len(items) THEN <<>>
    ELSE <<[k |-> "item", report |-> (verbose /\ (i - 1) % 100 = 0 /\ depth = 0)]>>
         \o StepsOf(items[i], depth + 1) \o ItemSteps(items, i + 1, depth)

EntrySteps(entries, i, depth) ==
    IF i > Len(entries) THEN <<>>
    ELSE <<[k |-> "item",
            report |-> (verbose /\ ((i - 1) % 1000 = 0 \/ i = Len(entries)) /\ depth = 0)]>>
         \o StepsOf(entries[i].v, depth + 1) \o EntrySteps(entries, i + 1, depth)

StepsOf(value, depth) ==
    (IF depth = 0 THEN <<[k |-> "start", report |-> FALSE]>> ELSE <<>>)
    \o (IF IsArray(value) THEN ItemSteps(value.e, 1, depth)
        ELSE IF value = JNull THEN <<>>
        ELSE IF Typeof(value) = "object" THEN EntrySteps(ObjectEntries(value), 1, depth)
        ELSE <<>>)

\* ((this.processedItems / this.totalItems) * 100).toFixed(1), in tenths of
\* a percent.
Progress(p, t) == (2000 * p + t) \div (2 * t)

Invocations == {1, 2}

\* The documents of the second invocation.
SecondDocs == {ExFlat, ExRootNumbers, ExTags}

InitInterleave ==
    /\ input \in DepthInputs
    /\ AnalyzerIdle
    /\ MetricsIdle
    /\ MainIdle
    /\ verbose = TRUE
    /\ silent = FALSE
    /\ depthArg = 0
    /\ logged = 0
    /\ HeapIdle
    /\ \E d \in SecondDocs :
          calls = [i \in Invocations |->
                      [doc |-> IF i = 1 THEN input ELSE d, pos |-> 0,
                       reports |-> <<>>, returned |-> NoValue]]
    /\ stack = <<>>

Running(i) == Len(stack) > 0 /\ stack[Len(stack)] = i

\* analyzer.determineJsonStructure(doc) is entered, by the program or from
\* inside a step of the invocation that is running: lines 13-16.
Invoke(i) ==
    /\ calls[i].pos = 0
    /\ \A n \in 1..Len(stack) : stack[n] # i
    /\ stack' = Append(stack, i)
    /\ processedItems' = 0
    /\ totalItems' = CountTotalItems(calls[i].doc)
    /\ calls' = [calls EXCEPT ![i].pos = 1]
    /\ UNCHANGED <<input, data, result, pc, firstResult, history>>
    /\ UNCHANGED <<metricVars, mainVars, depthVars, heapVars>>

\* The next item or field of the running invocation: lines 24-28, 46-50.
Step(i) ==
    /\ Running(i)
    /\ calls[i].pos < Len(StepsOf(calls[i].doc, 0))
    /\ processedItems' = processedItems + 1
    /\ calls' = [calls EXCEPT
                   ![i].pos = @ + 1,
                   ![i].reports =
                       IF StepsOf(calls[i].doc, 0)[calls[i].pos + 1].report
                       THEN Append(@, Progress(processedItems + 1, totalItems))
                       ELSE @]
    /\ UNCHANGED <<input, data, result, pc, totalItems, firstResult, history>>
    /\ UNCHANGED stack
    /\ UNCHANGED <<metricVars, mainVars, depthVars, heapVars>>

\* The running invocation returns what it built from its own structures.
Return(i) ==
    /\ Running(i)
    /\ calls[i].pos = Len(StepsOf(calls[i].doc, 0))
    /\ calls[i].returned = NoValue
    /\ calls' = [calls EXCEPT ![i].returned = DetermineJsonStructure(calls[i].doc, 0)]
    /\ stack' = SubSeq(stack, 1, Len(stack) - 1)
    /\ UNCHANGED analyzerVars
    /\ UNCHANGED <<metricVars, mainVars, depthVars, heapVars>>

NextInterleave ==
    \/ \E i \in Invocations : Invoke(i)
    \/ \E i \in Invocations : Step(i)
    \/ \E i \in Invocations : Return(i)

SpecInterleave == InitInterleave /\ [][NextInterleave]_vars

\* ---------------------------------------------------------------- claims
IsPrimitive(v) == v.t \in {"str", "prim", "null"}

ExpectedLabel(v) ==
    IF v.t = "null" THEN "null" ELSE IF v.t = "str" THEN "string" ELSE v.ty

RECURSIVE ObjectAgrees(_, _, _)
ObjectAgrees(v, s, depth) ==
    /\ s.t = "obj"
    /\ KeysOf(s.f) = KeysOf(v.f)
    /\ \A i \in 1..Len(v.f) :
          LET c == v.f[i].v
              r == s.f[i].v
          IN IF IsPrimitive(c) THEN r = Str(ExpectedLabel(c))
             ELSE IF c.t = "obj" THEN ObjectAgrees(c, r, depth + 1)
             ELSE r = DetermineJsonStructure(c, depth + 1)

RECURSIVE EmptyAgrees(_, _)
EmptyAgrees(v, s) ==
    IF v.t = "arr"
    THEN IF Len(v.e) = 0 THEN s = EmptySentinel ELSE s # EmptySentinel /\ s.t = "arr"
    ELSE IF v.t = "obj"
    THEN /\ s.t = "obj"
         /\ Len(s.f) = Len(v.f)
         /\ \A i \in 1..Len(v.f) : EmptyAgrees(v.f[i].v, s.f[i].v)
    ELSE TRUE

RECURSIVE FirstSeen(_)
FirstSeen(seq) ==
    IF Len(seq) = 0 THEN <<>>
    ELSE LET front == FirstSeen(SubSeq(seq, 1, Len(seq) - 1))
             last == seq[Len(seq)]
         IN IF \E i \in 1..Len(front) : front[i] = last THEN front ELSE Append(front, last)

RECURSIVE JoinLabels(_)
JoinLabels(labels) ==
    IF Len(labels) = 1 THEN labels[1]
    ELSE labels[1] \o "|" \o JoinLabels(Tail(labels))

IsPrimArray(v) ==
    /\ v.t = "arr"
    /\ Len(v.e) > 0
    /\ \A i \in 1..Len(v.e) : IsPrimitive(v.e[i])

LabelsOf(v) == FirstSeen([i \in 1..Len(v.e) |-> ExpectedLabel(v.e[i])])

\* What the tests and the claims expect of an array of primitives.
PrimArrayShape(v) == Arr(<<Str(JoinLabels(LabelsOf(v)))>>)

SameKindAgrees(v, s) == (IsPrimArray(v) /\ Len(LabelsOf(v)) = 1) => s = PrimArrayShape(v)

\* C3: a non-empty array of primitives of one kind, at the root or in a field
\* of the root object, is inferred as a one-element array holding that
\* kind's label.
C3_SameKindArray ==
    Returned =>
        /\ SameKindAgrees(data, result)
        /\ data.t = "obj" =>
              \A i \in 1..Len(data.f) : SameKindAgrees(data.f[i].v, result.f[i].v)

\* C4: a non-empty array of primitives of more than one kind is inferred as a
\* one-element array holding the distinct labels joined by "|" in order of
\* first occurrence.
C4_UnionArray ==
    (Returned /\ IsPrimArray(data) /\ Len(LabelsOf(data)) > 1)
        => result = PrimArrayShape(data)

IsObjArray(v) ==
    /\ v.t = "arr"
    /\ Len(v.e) > 0
    /\ \A i \in 1..Len(v.e) : v.e[i].t = "obj"

RECURSIVE Concat(_)
Concat(seqs) == IF Len(seqs) = 0 THEN <<>> ELSE seqs[1] \o Concat(Tail(seqs))

\* The keys of the elements of an array of objects, in the order met.
ElementKeys(v) == Concat([i \in 1..Len(v.e) |-> KeysOf(v.e[i].f)])

Range(seq) == {seq[i] : i \in 1..Len(seq)}

Occurrences(v, key) ==
    LET having == SelectSeq([i \in 1..Len(v.e) |-> v.e[i]],
                            LAMBDA e : HasKey(e.f, key))
    IN [i \in 1..Len(having) |-> DetermineJsonStructure(GetProp(having[i].f, key), 2)]

\* C6: a key met in several elements with shapes that are arrays on neither
\* side and not objects on both keeps the shape of the first element that
\* has it.
C6_FirstSeenWins ==
    (Returned /\ IsObjArray(data)) =>
        \A key \in Range(ElementKeys(data)) :
            LET occ == Occurrences(data, key)
            IN (/\ Len(occ) >= 2
                /\ \A i \in 1..Len(occ) : ~IsArray(occ[i])
                /\ \A i, j \in 1..Len(occ) :
                      i # j => ~(occ[i].t = "obj" /\ occ[j].t = "obj"))
               => GetProp(result.e[1].f, key) = occ[1]

ShapeKeys(shape) == Range(KeysOf(shape.f))

C8_Idempotent ==
    (/\ Returned
     /\ data.t = "arr"
     /\ Len(data.e) > 0
     /\ \A i \in 1..Len(data.e) : data.e[i] = data.e[1])
    => result = Arr(<<DetermineJsonStructure(data.e[1], 1)>>)

Labels == {"string", "number", "boolean", "null", "empty[]"}

RECURSIVE IsShape(_)
IsShape(s) ==
    \/ s.t = "str" /\ s.s \in Labels
    \/ s.t = "arr" /\ Len(s.e) = 1 /\ IsShape(s.e[1])
    \/ /\ s.t = "obj"
       /\ \A i, j \in 1..Len(s.f) : i # j => s.f[i].k # s.f[j].k
       /\ \A i \in 1..Len(s.f) : IsShape(s.f[i].v)

\* C10: a call on a JSON value never raises an error; it returns, and what it
\* returns is a shape: a label, "empty[]", a one-element array of a shape or
\* an object of shapes.
C10_Total ==
    /\ pc # "threw"
    /\ pc = "returned" => IsShape(result)

C10_Witness ==
    /\ Returned
    /\ data = Arr(<<Obj(<<Field("a", Arr(<<XObj>>))>>), Obj(<<Field("a", YObj)>>),
                    Obj(<<Field("b", XObj)>>)>>)
    /\ IsShape(result)
    /\ result = Arr(<<Obj(<<Field("a", Arr(<<Obj(<<Field("x", Str("number")),
                                                  Field("y", Str("boolean"))>>)>>)),
                            Field("b", Obj(<<Field("x", Str("number"))>>))>>)>>)

\* ------------------------------------------------- claims on the metrics
SetMax(S) == CHOOSE m \in S : \A n \in S : n <= m

IsContainer(x) == x.t \in {"obj", "arr"}

\* The depths the walk of the claim reaches: the root at d, the wrapped
\* element of an array at the depth of the array, a field that holds an
\* object or an array one deeper.
RECURSIVE WalkDepths(_, _)
WalkDepths(s, d) ==
    {d}
    \cup (IF s.t = "arr"
          THEN UNION {WalkDepths(s.e[j], d) : j \in 1..Len(s.e)}
          ELSE IF s.t = "obj"
          THEN UNION {WalkDepths(s.f[j].v, d + 1) :
                        j \in {i \in 1..Len(s.f) : IsContainer(s.f[i].v)}}
          ELSE {})

\* An object all of whose fields hold primitives.
IsFlatObject(s) == s.t = "obj" /\ \A j \in 1..Len(s.f) : IsPrimitive(s.f[j].v)

\* k for a chain of k nested one-field objects ending in a primitive field,
\* 0 for anything else.
RECURSIVE ChainLength(_)
ChainLength(s) ==
    IF s.t = "obj" /\ Len(s.f) = 1
    THEN IF IsPrimitive(s.f[1].v) THEN 1
         ELSE LET c == ChainLength(s.f[1].v) IN IF c > 0 THEN c + 1 ELSE 0
    ELSE 0

\* C11: maxDepth is the greatest depth of the walk that starts at the root
\* with 0 and adds 1 for each field holding an object or array shape: 0 for an
\* object of primitive fields, k-1 for a chain of k nested objects.
C11_MaxDepth ==
    metrics # NoValue =>
        /\ metrics.maxDepth = SetMax(WalkDepths(structure, 0))
        /\ IsFlatObject(structure) => metrics.maxDepth = 0
        /\ ChainLength(structure) > 0 => metrics.maxDepth = ChainLength(structure) - 1

C11_Witness ==
    /\ metrics # NoValue
    /\ input = ExChain
    /\ ChainLength(structure) = 4
    /\ metrics.maxDepth = 3

\* The field names at any level of a value: the key of every field of every
\* object in it.
AllNames(s) ==
    {SubShape(s, SubSeq(q, 1, Len(q) - 1)).f[q[Len(q)]].k :
        q \in {r \in Positions(s) :
                 Len(r) > 0 /\ SubShape(s, SubSeq(r, 1, Len(r) - 1)).t = "obj"}}

\* The values the elements of an array of objects hold under key.
ValuesUnder(v, key) ==
    {GetProp(v.e[i].f, key) : i \in {j \in 1..Len(v.e) : HasKey(v.e[j].f, key)}}

Holder(s, q) == SubShape(s, SubSeq(q, 1, Len(q) - 1))

IsFieldValue(s, q) == Len(q) > 0 /\ Holder(s, q).t = "obj"

\* The number of objects on the way from the root to the sub-shape at q.
RECURSIVE ObjectLevels(_, _)
ObjectLevels(s, q) ==
    IF Len(q) = 0 THEN 0
    ELSE IF s.t = "obj" THEN 1 + ObjectLevels(s.f[q[1]].v, Tail(q))
    ELSE ObjectLevels(s.e[q[1]], Tail(q))

\* C13 as stated: replacing the sub-shape X at the root or in a field by [X]
\* leaves maxDepth unchanged.
C13_WrapAnywhere ==
    (wrapped # NoValue /\ (wrappedAt = <<>> \/ IsFieldValue(structure, wrappedAt))) =>
        wrappedMetrics.maxDepth = metrics.maxDepth

\* C13: replacing the sub-shape X by [X] leaves maxDepth unchanged when X is
\* the root, an element of an array, or an object or array shape held by a
\* field; when X is a primitive label or "empty[]" held by a field, maxDepth
\* becomes the greater of itself and the number of objects above X.
C13_WrapTransparent ==
    wrapped # NoValue =>
        LET X == SubShape(structure, wrappedAt)
        IN /\ (IsContainer(X) \/ ~IsFieldValue(structure, wrappedAt)) =>
                  wrappedMetrics.maxDepth = metrics.maxDepth
           /\ wrappedMetrics.maxDepth =
                  Max(metrics.maxDepth, ObjectLevels(structure, wrappedAt))

C13_Witness ==
    /\ wrapped # NoValue
    /\ IsFieldValue(structure, wrappedAt)
    /\ SubShape(structure, wrappedAt).t = "obj"
    /\ wrapped # structure
    /\ metrics.maxDepth > 0
    /\ wrappedMetrics.maxDepth = metrics.maxDepth

\* ------------------------------------------------- claims on the command
\* A JSON text over TextChars: an array, empty or of one such array, with
\* white space anywhere between the brackets and around them.
RECURSIVE IsArrayText(_)
IsArrayText(t) ==
    /\ Len(t) >= 2
    /\ t[1] = "["
    /\ t[Len(t)] = "]"
    /\ LET inside == Trim(SubSeq(t, 2, Len(t) - 1))
       IN inside = <<>> \/ IsArrayText(inside)

IsJsonText(t) == IsArrayText(Trim(t))

InputWasRead == Len(rawText) > 0

AnalyzerNeverInvoked == pc = "idle" /\ data = NoValue /\ result = NoValue

Exited == mainPc = "exited"

\* C14 as stated: when the text read is not valid JSON the analyzer is never
\* invoked and the run ends with status 1 and the 'Invalid JSON format'
\* message, which no other failure uses.
C14_InvalidInputText ==
    /\ (InputWasRead /\ ~IsJsonText(rawText[1])) =>
           /\ AnalyzerNeverInvoked
           /\ mainPc \in {"read", "exited"}
           /\ Exited => exitCode = 1 /\ stderr = <<InvalidJsonMsg>>
    /\ (Exited /\ InvalidJsonMsg \in Range(stderr)) =>
           InputWasRead /\ ~IsJsonText(rawText[1])

\* C14: when the text given to JSON.parse (the text of the input file, or the
\* text of STDIN after sanitizeStdinJson) is not valid JSON, the analyzer is
\* never invoked and the run ends with status 1 and the 'Invalid JSON format'
\* message; a run that ends with that message had such a text.
C14_InvalidJson ==
    /\ (InputWasRead /\ ~IsJsonText(json)) =>
           /\ AnalyzerNeverInvoked
           /\ mainPc \in {"read", "exited"}
           /\ Exited => exitCode = 1 /\ stderr = <<InvalidJsonMsg>>
    /\ (Exited /\ InvalidJsonMsg \in Range(stderr)) =>
           InputWasRead /\ ~IsJsonText(json)

C14_Witness ==
    /\ Exited
    /\ InputWasRead
    /\ ~IsJsonText(json)
    /\ json # <<>>
    /\ exitCode = 1
    /\ stderr = <<InvalidJsonMsg>>
    /\ AnalyzerNeverInvoked

\* The documented error cases of a command line that asks neither for the
\* help nor for the version.
AsksForRun == argv # NoValue /\ ~argv.help /\ ~argv.version

NoInputGiven ==
    AsksForRun /\ ~argv.stdin /\ Len(argv.input) = 0 /\ Len(argv.positionals) = 0

UnsupportedExtensionGiven ==
    AsksForRun /\ ~argv.stdin /\ ExistsSync(Supplied(argv))
    /\ Extname(Supplied(argv)) # ".json"

MissingFileGiven ==
    AsksForRun /\ ~argv.stdin /\ Supplied(argv) # "" /\ ~ExistsSync(Supplied(argv))

InvalidJsonGiven == InputWasRead /\ ~IsJsonText(json)

\* C15: a run that ends in one of the documented error cases (invalid JSON,
\* no input path and no --stdin, an extension other than .json, a file that
\* does not exist) ends with a non-zero status and without the analysis; the
\* three cases of the command line end without parsed options.
C15_ErrorCasesExitNonZero ==
    /\ (Exited /\ (InvalidJsonGiven \/ NoInputGiven \/ UnsupportedExtensionGiven
                   \/ MissingFileGiven)) =>
           exitCode # 0 /\ AnalyzerNeverInvoked
    /\ (NoInputGiven \/ UnsupportedExtensionGiven \/ MissingFileGiven) =>
           options = NoValue /\ mainPc \in {"start", "exited"}

\* C16: a run with --print that ends with status 0 has written the structure
\* to stdout; without -o it has written no file and outputPath is undefined,
\* with -o it has written the file named by -o as well.
C16_PrintAndOutput ==
    (Exited /\ exitCode = 0 /\ Returned /\ argv.print) =>
        /\ "structure" \in Range(stdout)
        /\ Len(argv.output) = 0 => written = {} /\ options.outputPath = <<>>
        /\ Len(argv.output) > 0 => argv.output[1] \in written

\* ------------------------------------------ claims on arrays in the merge
\* The rule of the claim for a key held already, one side an array shape.
AsList(shape) == IF shape.t = "arr" THEN shape.e ELSE <<shape>>

ArrayRule(existing, incoming) ==
    LET remaining ==
            SelectSeq(AsList(existing) \o AsList(incoming), LAMBDA x : x # Str("empty[]"))
    IN IF remaining # <<>> THEN Arr(<<MergeStructures(remaining)>>) ELSE Str("empty[]")

\* What the key holds after the first i of its occurrences, the steps with an
\* array shape on either side taken by the rule of the claim.
RECURSIVE Folded(_, _)
Folded(occs, i) ==
    IF i = 1 THEN occs[1]
    ELSE LET existing == Folded(occs, i - 1)
         IN IF existing.t = "arr" \/ occs[i].t = "arr"
            THEN ArrayRule(existing, occs[i])
            ELSE MergeValue(existing, occs[i])

\* C17: in the shape of an array of objects, each key holds what its
\* occurrences give when every step that has an array shape on either side
\* takes both sides as lists (the non-array side as one element), drops the
\* "empty[]" entries and wraps the merge of the rest in a one-element array,
\* or yields "empty[]" when nothing is left.
C17_ArrayPromotion ==
    (Returned /\ IsObjArray(data)) =>
        \A key \in Range(ElementKeys(data)) :
            LET occs == Occurrences(data, key)
            IN GetProp(result.e[1].f, key) = Folded(occs, Len(occs))

C17_Witness ==
    /\ Returned
    /\ data = Arr(<<Obj(<<Field("a", XObj)>>), Obj(<<Field("a", Arr(<<YObj>>))>>)>>)
    /\ result =
        Arr(<<Obj(<<Field("a",
            Arr(<<Obj(<<Field("x", Str("number")), Field("y", Str("boolean"))>>)>>))>>)>>)

\* C18: in the shape of an array of objects a key holds "empty[]" only if
\* every element that has the key holds an empty array under it; one element
\* with anything else under the key is enough for the merged value not to be
\* "empty[]", in whatever order the elements come.
C18_EmptyOnlyIfAllEmpty ==
    (Returned /\ IsObjArray(data)) =>
        \A key \in Range(ElementKeys(data)) :
            GetProp(result.e[1].f, key) = EmptySentinel =>
                \A x \in ValuesUnder(data, key) : x = Arr(<<>>)

\* ------------------------------------- claims on depth and progress reports
\* C19: whatever the depth argument and the logger's verbose and silent
\* flags, a call returns the shape the first call returned, which is the
\* shape of a call at depth 0.
C19_DepthAndFlagsIrrelevant ==
    Returned =>
        /\ result = firstResult
        /\ result = DetermineJsonStructure(data, 0)

C19_Witness ==
    /\ Returned
    /\ depthArg = -1
    /\ verbose
    /\ ~silent
    /\ logged > 0
    /\ processedItems # ProcessedBy(data)
    /\ data = ExNested
    /\ result = firstResult

\* ------------------------------------------------- claims on what is written
\* C20: a call changes no cell that existed when it began (the cells of v,
\* the shapes earlier calls returned), no call of mergeStructures changes a
\* cell that existed when it began (its input shapes, aliased into its
\* accumulator or not), and so v and every shape returned so far still stand
\* for the values they stood for.
C20_NothingGivenIsMutated ==
    /\ SameCells(before, heap)
    /\ mergesClean
    /\ dataRef # NoValue =>
           /\ Deref(dataRef, heap) = input
           /\ \A i \in 1..Len(shapeRefs) :
                  Deref(shapeRefs[i], heap) = DetermineJsonStructure(input, 0)

C20_Witness ==
    /\ input = ExDeep
    /\ Len(shapeRefs) = 2
    /\ shapeRefs[1] # shapeRefs[2]
    /\ metrics # NoValue
    /\ Len(heap) > Len(before)
    /\ Len(before) > 0
    /\ SameCells(before, heap)
    /\ Deref(shapeRefs[1], heap) = Deref(shapeRefs[2], heap)

\* The progress values an invocation on v reports when nothing else runs on
\* the analyzer between its steps.
RECURSIVE AloneReportsFrom(_, _, _, _)
AloneReportsFrom(steps, n, p, t) ==
    IF n > Len(steps) THEN <<>>
    ELSE IF steps[n].k = "start" THEN AloneReportsFrom(steps, n + 1, 0, t)
    ELSE (IF steps[n].report THEN <<Progress(p + 1, t)>> ELSE <<>>)
         \o AloneReportsFrom(steps, n + 1, p + 1, t)

AloneReports(v) == AloneReportsFrom(StepsOf(v, 0), 1, 0, CountTotalItems(v))

\* C21: two invocations of determineJsonStructure whose steps are interleaved
\* on the same analyzer each return the same result and report the same
\* progress values as when run alone.
C21_InvocationsIndependent ==
    \A i \in DOMAIN calls :
        calls[i].returned # NoValue =>
            /\ calls[i].returned = DetermineJsonStructure(calls[i].doc, 0)
            /\ calls[i].reports = AloneReports(calls[i].doc)

\* C22: every field name at any level of determineJsonStructure(v) is a key
\* of some object occurring in v.
C22_NoInventedNames == Returned => AllNames(result) \subseteq AllNames(data)

\* The values held under the field name key at any level of v.
HeldUnder(v, key) ==
    {SubShape(v, q) : q \in {r \in Positions(v) :
                               IsFieldValue(v, r) /\ Holder(v, r).f[r[Len(r)]].k = key}}

\* A value whose shape is a label: a primitive, null or an empty array.
IsLabelled(x) == x.t \in {"str", "prim", "null"} \/ (x.t = "arr" /\ Len(x.e) = 0)

\* No field name holds an object in one place and a primitive, null or an
\* empty array in another.
NoMixedNames(v) ==
    \A key \in AllNames(v) :
        ~(/\ \E x \in HeldUnder(v, key) : x.t = "obj"
          /\ \E x \in HeldUnder(v, key) : IsLabelled(x))

StructureOut == "structure" \in Range(stdout) \/ written # {}

\* main has been entered: parseCliArgs returned options.
MainEntered == options # NoValue

\* C24: in every run of main the input is read before it is parsed and
\* parsed before the structure is inferred; the structure is written or
\* printed only after parsing and inference have succeeded; status 0 is
\* reached only after the structure has been written or printed; and a run
\* that fails at any step exits with status 1 without writing the output
\* file.
C24_StepsInOrder ==
    /\ parsed # NoValue => InputWasRead /\ IsJsonText(json)
    /\ ~AnalyzerNeverInvoked => parsed # NoValue /\ data = parsed
    /\ mainPc \in {"analyzed", "output"} => Returned /\ result # TypeError
    /\ StructureOut =>
           /\ MainEntered /\ InputWasRead /\ parsed # NoValue
           /\ Returned /\ result = DetermineJsonStructure(parsed, 0)
           /\ result # TypeError
    /\ (MainEntered /\ Exited /\ exitCode = 0) => StructureOut /\ metrics # NoValue
    /\ (MainEntered /\ Exited /\ ~StructureOut) => exitCode = 1
    /\ (Exited /\ exitCode # 0) => exitCode = 1 /\ written = {} /\ Len(stderr) > 0

C24_Witness ==
    /\ Exited
    /\ exitCode = 0
    /\ written = {"out.json"}
    /\ InputWasRead
    /\ Returned
    /\ result = DetermineJsonStructure(parsed, 0)

====
